---- MODULE Spec2Model ----
(***************************************************************************)
(* Share-link creation and deduplication workflow of                       *)
(* pikpak-plus-client/src/components/features/create-share/                *)
(* share-section.tsx.                                                      *)
(*                                                                         *)
(* Every mounted ShareSection is one workflow instance.  The instances of  *)
(* a page share one persisted list (the browser's localStorage entry       *)
(* LOCAL_SHARES_STORAGE_KEY), but each keeps its own React state `shares`, *)
(* loaded from the entry at mount and replaced by its own setShares.  A    *)
(* handleShare invocation closes over the `shares` and `taskData` of the   *)
(* render it was created in; the continuation after `await axios.post`     *)
(* still uses those values.                                                *)
(***************************************************************************)
EXTENDS Integers, Sequences, FiniteSets, TLC

(* ------------------------------------------------------------------ *)
(* Bounds                                                               *)
(* ------------------------------------------------------------------ *)

\* Remote calls issued in one behaviour, over all instances.
MaxCalls == 2

\* Largest value Date.now() returns in one behaviour.
MaxClock == 1

(* ------------------------------------------------------------------ *)
(* Values                                                               *)
(* ------------------------------------------------------------------ *)

\* null / undefined, and a present value, of an optional field.
Null == <<>>
Some(v) == <<v>>

\* The mounted ShareSection components.
Instances == {"A", "B"}

\* File identities a finished task can carry.
Files == {"f1", "f2"}

\* taskData.file_name of each instance's task; B's task has none.
FileNameOf(i) == IF i = "A" THEN Some("a.mkv") ELSE Null

\* Bodies of 2xx answers of POST /share.
Responses ==
    { [share_url |-> "https://x/y", pass_code |-> Null, is_existing |-> Some(FALSE), share_id |-> Null],
      [share_url |-> "https://x/z", pass_code |-> Some("1234"), is_existing |-> Null, share_id |-> Some("srv-1")],
      [share_url |-> "https://x/y", pass_code |-> Null, is_existing |-> Some(TRUE), share_id |-> Null] }

\* axios rejections: no response, or a response with a status and a body
\* whose `error` is absent, a string, or some other value.
Failures ==
    { [response |-> Null],
      [response |-> Some([status |-> 500, error |-> [type |-> "string", val |-> "internal failure"]])],
      [response |-> Some([status |-> 400, error |-> [type |-> "string", val |-> "Quota exceeded"]])] }

\* A record left in the list by an earlier session.
OldShare ==
    [id |-> "srv-0", file_name |-> "old.mkv", share_url |-> "https://x/old",
     pass_code |-> Null, timestamp |-> 0, file_id |-> "f0"]

(* ------------------------------------------------------------------ *)
(* Strings                                                              *)
(* ------------------------------------------------------------------ *)

LowerChar(c) ==
    CASE c = "A" -> "a" [] c = "B" -> "b" [] c = "C" -> "c" [] c = "D" -> "d"
      [] c = "E" -> "e" [] c = "F" -> "f" [] c = "G" -> "g" [] c = "H" -> "h"
      [] c = "I" -> "i" [] c = "J" -> "j" [] c = "K" -> "k" [] c = "L" -> "l"
      [] c = "M" -> "m" [] c = "N" -> "n" [] c = "O" -> "o" [] c = "P" -> "p"
      [] c = "Q" -> "q" [] c = "R" -> "r" [] c = "S" -> "s" [] c = "T" -> "t"
      [] c = "U" -> "u" [] c = "V" -> "v" [] c = "W" -> "w" [] c = "X" -> "x"
      [] c = "Y" -> "y" [] c = "Z" -> "z" [] OTHER -> c

RECURSIVE toLowerCase(_)
toLowerCase(s) ==
    IF Len(s) = 0 THEN ""
    ELSE LowerChar(SubSeq(s, 1, 1)) \o toLowerCase(SubSeq(s, 2, Len(s)))

includes(s, sub) ==
    \E k \in 1..(Len(s) - Len(sub) + 1) : SubSeq(s, k, k + Len(sub) - 1) = sub

(* ------------------------------------------------------------------ *)
(* getUserFriendlyError                                                 *)
(* ------------------------------------------------------------------ *)

\* The classifier without the check of line 30: optional chaining lets a
\* rejection without response fall through to the generic message.
getUserFriendlyError_NoResponseCheck(error) ==
    IF error.response = Null
    THEN "Failed to create share link. Please try again."
    ELSE LET status == error.response[1].status
             apiError == error.response[1].error
         IN  IF status = 403 \/ status = 401
             THEN "You don't have permission to share this file."
             ELSE IF status >= 500
             THEN "Server is temporarily unavailable. Please try again later."
             ELSE IF apiError.type = "string" /\ apiError.val # ""
             THEN IF includes(toLowerCase(apiError.val), "timeout")
                  THEN "Request timed out. Please try again."
                  ELSE IF includes(toLowerCase(apiError.val), "not found")
                  THEN "File not found. It may have been deleted."
                  ELSE apiError.val
             ELSE "Failed to create share link. Please try again."

\* The classifier with the body's message examined before the status.
getUserFriendlyError_StatusLast(error) ==
    IF error.response = Null
    THEN "Unable to connect. Please check your internet connection."
    ELSE LET status == error.response[1].status
             apiError == error.response[1].error
         IN  IF apiError.type = "string" /\ apiError.val # ""
             THEN IF includes(toLowerCase(apiError.val), "timeout")
                  THEN "Request timed out. Please try again."
                  ELSE IF includes(toLowerCase(apiError.val), "not found")
                  THEN "File not found. It may have been deleted."
                  ELSE apiError.val
             ELSE IF status = 403 \/ status = 401
             THEN "You don't have permission to share this file."
             ELSE IF status >= 500
             THEN "Server is temporarily unavailable. Please try again later."
             ELSE "Failed to create share link. Please try again."

\* The classifier comparing the body's message without toLowerCase.
getUserFriendlyError_CaseSensitive(error) ==
    IF error.response = Null
    THEN "Unable to connect. Please check your internet connection."
    ELSE LET status == error.response[1].status
             apiError == error.response[1].error
         IN  IF status = 403 \/ status = 401
             THEN "You don't have permission to share this file."
             ELSE IF status >= 500
             THEN "Server is temporarily unavailable. Please try again later."
             ELSE IF apiError.type = "string" /\ apiError.val # ""
             THEN IF includes(apiError.val, "timeout")
                  THEN "Request timed out. Please try again."
                  ELSE IF includes(apiError.val, "not found")
                  THEN "File not found. It may have been deleted."
                  ELSE apiError.val
             ELSE "Failed to create share link. Please try again."

\* The classifier with the two message tests of lines 47-52 exchanged.
getUserFriendlyError_NotFoundFirst(error) ==
    IF error.response = Null
    THEN "Unable to connect. Please check your internet connection."
    ELSE LET status == error.response[1].status
             apiError == error.response[1].error
         IN  IF status = 403 \/ status = 401
             THEN "You don't have permission to share this file."
             ELSE IF status >= 500
             THEN "Server is temporarily unavailable. Please try again later."
             ELSE IF apiError.type = "string" /\ apiError.val # ""
             THEN IF includes(toLowerCase(apiError.val), "not found")
                  THEN "File not found. It may have been deleted."
                  ELSE IF includes(toLowerCase(apiError.val), "timeout")
                  THEN "Request timed out. Please try again."
                  ELSE apiError.val
             ELSE "Failed to create share link. Please try again."

\* The classifier with the body's message examined before the 5xx check.
getUserFriendlyError_MessageFirst(error) ==
    IF error.response = Null
    THEN "Unable to connect. Please check your internet connection."
    ELSE LET status == error.response[1].status
             apiError == error.response[1].error
         IN  IF status = 403 \/ status = 401
             THEN "You don't have permission to share this file."
             ELSE IF apiError.type = "string" /\ apiError.val # ""
             THEN IF includes(toLowerCase(apiError.val), "timeout")
                  THEN "Request timed out. Please try again."
                  ELSE IF includes(toLowerCase(apiError.val), "not found")
                  THEN "File not found. It may have been deleted."
                  ELSE apiError.val
             ELSE IF status >= 500
             THEN "Server is temporarily unavailable. Please try again later."
             ELSE "Failed to create share link. Please try again."

getUserFriendlyError(error) ==
    IF error.response = Null
    THEN "Unable to connect. Please check your internet connection."
    ELSE LET status == error.response[1].status
             apiError == error.response[1].error
         IN  IF status = 403 \/ status = 401
             THEN "You don't have permission to share this file."
             ELSE IF status >= 500
             THEN "Server is temporarily unavailable. Please try again later."
             ELSE IF apiError.type = "string" /\ apiError.val # ""
             THEN IF includes(toLowerCase(apiError.val), "timeout")
                  THEN "Request timed out. Please try again."
                  ELSE IF includes(toLowerCase(apiError.val), "not found")
                  THEN "File not found. It may have been deleted."
                  ELSE apiError.val
             ELSE "Failed to create share link. Please try again."

(* ------------------------------------------------------------------ *)
(* saveToLocalStorage                                                   *)
(* ------------------------------------------------------------------ *)

\* Line 82: the server's share_id, or `share-${Date.now()}`.
ShareIdOf(shareResult, t) ==
    IF shareResult.share_id # Null /\ shareResult.share_id[1] # ""
    THEN shareResult.share_id[1]
    ELSE "share-" \o ToString(t)

\* Lines 81-88: the record built from the answer, the closure's task data
\* and two readings t1 <= t2 of the clock.
NewShare(shareResult, fileId, fileName, t1, t2) ==
    [id        |-> ShareIdOf(shareResult, t1),
     file_name |-> IF fileName # Null /\ fileName[1] # "" THEN fileName[1] ELSE "Unknown File",
     share_url |-> shareResult.share_url,
     pass_code |-> shareResult.pass_code,
     timestamp |-> t2,
     file_id   |-> fileId]

\* Line 91.
AlreadyExists(shares, fileId) ==
    \E k \in 1..Len(shares) : shares[k].file_id = fileId

\* saveToLocalStorage writing [...shares, newShare].
saveToLocalStorage_AtEnd(shares, newShare, fileId) ==
    IF ~AlreadyExists(shares, fileId)
    THEN Some(shares \o <<newShare>>)
    ELSE Null

\* saveToLocalStorage without the check of line 91.
saveToLocalStorage_NoCheck(shares, newShare, fileId) ==
    Some(<<newShare>> \o shares)

\* Lines 90-94: what setShares is called with, or Null when it is not
\* called.  `shares` is the list of the closure, not the persisted one.
saveToLocalStorage(shares, newShare, fileId) ==
    IF ~AlreadyExists(shares, fileId)
    THEN Some(<<newShare>> \o shares)
    ELSE Null

(* ------------------------------------------------------------------ *)
(* State                                                                *)
(* ------------------------------------------------------------------ *)

VARIABLES
    store,        \* the persisted list under LOCAL_SHARES_STORAGE_KEY
    shares,       \* shares[i]: instance i's React state of the list
    task,         \* task[i]: file_id of instance i's task prop (optional)
    artifact,     \* artifact[i]: the file identity i's task resolves to (A's is f1)
    shareLoading, \* per instance
    shareData,    \* per instance, optional answer
    shareError,   \* per instance, optional message
    status,       \* per instance: "idle" from mount, "loading" from line 103,
                  \* "succeeded" from line 113, "failed" from line 121
    pending,      \* pending[i]: closures of the calls awaiting their answer
    clock,        \* last value Date.now() returned
    nCalls,       \* POST /share calls issued
    nPassed,      \* invocations that passed the file-identity check
    appended,     \* the records saveToLocalStorage was called for, in order
    last          \* what the last step of a handler was

vars == <<store, shares, task, artifact, shareLoading, shareData, shareError,
          status, pending, clock, nCalls, nPassed, appended, last>>

InitStores == { <<>>, <<OldShare>> }

\* op: the handler step; inst: its instance; from: that instance's status before
\* the step; call: the closure of the call the step issued or completed;
\* res / err: the answer; before: the persisted list before the step.
Event(op, i, call, res, err) ==
    [op |-> op, inst |-> i, from |-> status[i], call |-> call, res |-> res,
     err |-> err, before |-> store]

Init ==
    /\ store \in InitStores
    /\ shares = [i \in Instances |-> store]
    /\ artifact \in {a \in [Instances -> Files] : a["A"] = "f1"}
    /\ task = [i \in Instances |-> Null]
    /\ shareLoading = [i \in Instances |-> FALSE]
    /\ shareData = [i \in Instances |-> Null]
    /\ shareError = [i \in Instances |-> Null]
    /\ status = [i \in Instances |-> "idle"]
    /\ pending = [i \in Instances |-> <<>>]
    /\ clock = 0
    /\ nCalls = 0
    /\ nPassed = 0
    /\ appended = <<>>
    /\ last = [op |-> "init", inst |-> "A", from |-> "idle", call |-> Null,
               res |-> Null, err |-> Null, before |-> store]

(* ------------------------------------------------------------------ *)
(* The task prop                                                        *)
(* ------------------------------------------------------------------ *)

\* The parent re-renders the section with a task whose file_id appeared
\* (the download finished) or is no longer there.
TaskUpdate(i) ==
    /\ \E t \in {Null, Some(artifact[i])} :
          /\ t # task[i]
          /\ task' = [task EXCEPT ![i] = t]
    /\ UNCHANGED <<store, shares, artifact, shareLoading, shareData, shareError,
                   status, pending, clock, nCalls, nPassed, appended, last>>

(* ------------------------------------------------------------------ *)
(* handleShare / handleRetry                                            *)
(* ------------------------------------------------------------------ *)

\* What the continuation after the await still sees: the `shares` and
\* `taskData` of the render the handler was created in.
Closure(i) ==
    [shares |-> shares[i], file_id |-> task[i][1], file_name |-> FileNameOf(i)]

\* handleShare posting twice for one invocation.
IssueCall_Twice(i) ==
    /\ pending' = [pending EXCEPT ![i] = Append(Append(@, Closure(i)), Closure(i))]
    /\ nCalls' = nCalls + 2

\* Line 108: one POST /share leaves, its continuation is parked.
IssueCall(i) ==
    /\ pending' = [pending EXCEPT ![i] = Append(@, Closure(i))]
    /\ nCalls' = nCalls + 1

\* handleShare without setShareError(null).
StartShare_KeepError(i, err, op) ==
    IF task[i] = Null
    THEN /\ shareError' = [err EXCEPT ![i] =
                              Some("File ID not available. Task may not be completed yet.")]
         /\ last' = Event(op, i, Null, Null, Null)
         /\ UNCHANGED <<store, shares, task, artifact, shareLoading, shareData,
                        status, pending, clock, nCalls, nPassed, appended>>
    ELSE /\ nCalls < MaxCalls
         /\ shareLoading' = [shareLoading EXCEPT ![i] = TRUE]
         /\ status' = [status EXCEPT ![i] = "loading"]
         /\ shareError' = err
         /\ nPassed' = nPassed + 1
         /\ pending' = [pending EXCEPT ![i] = Append(@, Closure(i))]
         /\ nCalls' = nCalls + 1
         /\ last' = Event(op, i, Some(Closure(i)), Null, Null)
         /\ UNCHANGED <<store, shares, task, artifact, shareData, clock, appended>>

\* handleShare without setShareLoading(true).
StartShare_NoLoading(i, err, op) ==
    IF task[i] = Null
    THEN /\ shareError' = [err EXCEPT ![i] =
                              Some("File ID not available. Task may not be completed yet.")]
         /\ last' = Event(op, i, Null, Null, Null)
         /\ UNCHANGED <<store, shares, task, artifact, shareLoading, shareData,
                        status, pending, clock, nCalls, nPassed, appended>>
    ELSE /\ nCalls < MaxCalls
         /\ shareError' = [err EXCEPT ![i] = Null]
         /\ nPassed' = nPassed + 1
         /\ pending' = [pending EXCEPT ![i] = Append(@, Closure(i))]
         /\ nCalls' = nCalls + 1
         /\ last' = Event(op, i, Some(Closure(i)), Null, Null)
         /\ UNCHANGED <<store, shares, task, artifact, shareLoading, shareData,
                        status, clock, appended>>

\* handleShare with setShareLoading(true) moved above the file-identity check.
StartShare_LoadingFirst(i, err, op) ==
    IF task[i] = Null
    THEN /\ shareError' = [err EXCEPT ![i] =
                              Some("File ID not available. Task may not be completed yet.")]
         /\ shareLoading' = [shareLoading EXCEPT ![i] = TRUE]
         /\ status' = [status EXCEPT ![i] = "loading"]
         /\ last' = Event(op, i, Null, Null, Null)
         /\ UNCHANGED <<store, shares, task, artifact, shareData,
                        pending, clock, nCalls, nPassed, appended>>
    ELSE /\ nCalls < MaxCalls
         /\ shareLoading' = [shareLoading EXCEPT ![i] = TRUE]
         /\ status' = [status EXCEPT ![i] = "loading"]
         /\ shareError' = [err EXCEPT ![i] = Null]
         /\ nPassed' = nPassed + 1
         /\ pending' = [pending EXCEPT ![i] = Append(@, Closure(i))]
         /\ nCalls' = nCalls + 1
         /\ last' = Event(op, i, Some(Closure(i)), Null, Null)
         /\ UNCHANGED <<store, shares, task, artifact, shareData, clock, appended>>

\* Lines 98-104, from the error state `err` the caller left.
StartShare(i, err, op) ==
    IF task[i] = Null
    THEN /\ shareError' = [err EXCEPT ![i] =
                              Some("File ID not available. Task may not be completed yet.")]
         /\ last' = Event(op, i, Null, Null, Null)
         /\ UNCHANGED <<store, shares, task, artifact, shareLoading, shareData,
                        status, pending, clock, nCalls, nPassed, appended>>
    ELSE /\ nCalls < MaxCalls
         /\ shareLoading' = [shareLoading EXCEPT ![i] = TRUE]
         /\ status' = [status EXCEPT ![i] = "loading"]
         /\ shareError' = [err EXCEPT ![i] = Null]
         /\ nPassed' = nPassed + 1
         /\ IssueCall(i)
         /\ last' = Event(op, i, Some(Closure(i)), Null, Null)
         /\ UNCHANGED <<store, shares, task, artifact, shareData, clock, appended>>

handleShare(i) == StartShare(i, shareError, "request")

\* A retry that also drops the result of an earlier success.
handleRetry_ClearsResult(i) ==
    IF task[i] = Null
    THEN /\ shareError' = [shareError EXCEPT ![i] =
                              Some("File ID not available. Task may not be completed yet.")]
         /\ shareData' = [shareData EXCEPT ![i] = Null]
         /\ last' = Event("retry", i, Null, Null, Null)
         /\ UNCHANGED <<store, shares, task, artifact, shareLoading,
                        status, pending, clock, nCalls, nPassed, appended>>
    ELSE /\ nCalls < MaxCalls
         /\ shareLoading' = [shareLoading EXCEPT ![i] = TRUE]
         /\ status' = [status EXCEPT ![i] = "loading"]
         /\ shareError' = [shareError EXCEPT ![i] = Null]
         /\ shareData' = [shareData EXCEPT ![i] = Null]
         /\ nPassed' = nPassed + 1
         /\ pending' = [pending EXCEPT ![i] = Append(@, Closure(i))]
         /\ nCalls' = nCalls + 1
         /\ last' = Event("retry", i, Some(Closure(i)), Null, Null)
         /\ UNCHANGED <<store, shares, task, artifact, clock, appended>>

\* Lines 127-130: setShareError(null), then handleShare().
handleRetry(i) == StartShare(i, [shareError EXCEPT ![i] = Null], "retry")

(* ------------------------------------------------------------------ *)
(* The continuation of handleShare                                      *)
(* ------------------------------------------------------------------ *)

Remove(s, k) == SubSeq(s, 1, k - 1) \o SubSeq(s, k + 1, Len(s))

\* !shareResult.is_existing
IsNewShare(shareResult) ==
    shareResult.is_existing = Null \/ shareResult.is_existing[1] = FALSE

\* Lines 112-118 and 123: the k-th outstanding call of i resolves with
\* body res; Date.now() returns t1 and then t2 inside saveToLocalStorage.
PostResolves(i, k, res, t1, t2) ==
    LET c == pending[i][k]
        newShare == NewShare(res, c.file_id, c.file_name, t1, t2)
        saved == IF IsNewShare(res)
                 THEN saveToLocalStorage(c.shares, newShare, c.file_id)
                 ELSE Null
    IN  /\ shareData' = [shareData EXCEPT ![i] = Some(res)]
        /\ IF saved # Null
           THEN /\ shares' = [shares EXCEPT ![i] = saved[1]]
                /\ store' = saved[1]
           ELSE UNCHANGED <<shares, store>>
        /\ appended' = IF IsNewShare(res) THEN Append(appended, newShare) ELSE appended
        /\ clock' = IF IsNewShare(res) THEN t2 ELSE clock
        /\ shareLoading' = [shareLoading EXCEPT ![i] = FALSE]
        /\ status' = [status EXCEPT ![i] = "succeeded"]
        /\ pending' = [pending EXCEPT ![i] = Remove(@, k)]
        /\ last' = Event("resolved", i, Some(c), Some(res), Null)
        /\ UNCHANGED <<task, artifact, shareError, nCalls, nPassed>>

\* The continuation without the finally block on the rejecting path.
PostRejects_NoFinally(i, k, err) ==
    /\ shareError' = [shareError EXCEPT ![i] = Some(getUserFriendlyError(err))]
    /\ pending' = [pending EXCEPT ![i] = Remove(@, k)]
    /\ last' = Event("rejected", i, Some(pending[i][k]), Null, Some(err))
    /\ UNCHANGED <<store, shares, task, artifact, shareLoading, status, shareData,
                   clock, nCalls, nPassed, appended>>

\* The catch block without setShareError.
PostRejects_NoMessage(i, k, err) ==
    /\ shareLoading' = [shareLoading EXCEPT ![i] = FALSE]
    /\ status' = [status EXCEPT ![i] = "failed"]
    /\ pending' = [pending EXCEPT ![i] = Remove(@, k)]
    /\ last' = Event("rejected", i, Some(pending[i][k]), Null, Some(err))
    /\ UNCHANGED <<store, shares, task, artifact, shareData, shareError, clock,
                   nCalls, nPassed, appended>>

\* Lines 119-123: the k-th outstanding call of i rejects with err.
PostRejects(i, k, err) ==
    /\ shareError' = [shareError EXCEPT ![i] = Some(getUserFriendlyError(err))]
    /\ shareLoading' = [shareLoading EXCEPT ![i] = FALSE]
    /\ status' = [status EXCEPT ![i] = "failed"]
    /\ pending' = [pending EXCEPT ![i] = Remove(@, k)]
    /\ last' = Event("rejected", i, Some(pending[i][k]), Null, Some(err))
    /\ UNCHANGED <<store, shares, task, artifact, shareData, clock, nCalls,
                   nPassed, appended>>

\* The readings of Date.now() a resolving call can make: none when the
\* answer is an existing share, one when the server sent a share_id.
ClockReadings(res) ==
    IF ~IsNewShare(res) THEN { <<clock, clock>> }
    ELSE { <<t1, t2>> \in (clock..MaxClock) \X (clock..MaxClock) :
              /\ t1 <= t2
              /\ (res.share_id # Null /\ res.share_id[1] # "") => t1 = t2 }

(* ------------------------------------------------------------------ *)
(* Specification: the handlers invoked at any time                      *)
(* ------------------------------------------------------------------ *)

Next ==
    \/ \E i \in Instances : TaskUpdate(i)
    \/ \E i \in Instances : handleShare(i)
    \/ \E i \in Instances : handleRetry(i)
    \/ \E i \in Instances : \E k \in 1..Len(pending[i]) :
          \E res \in Responses : \E t \in ClockReadings(res) :
             PostResolves(i, k, res, t[1], t[2])
    \/ \E i \in Instances : \E k \in 1..Len(pending[i]) :
          \E err \in Failures : PostRejects(i, k, err)

Spec == Init /\ [][Next]_vars

(* ------------------------------------------------------------------ *)
(* Specification: the handlers invoked through the rendered controls    *)
(* ------------------------------------------------------------------ *)

\* Line 237: the `disabled` of the share button.
ShareButtonDisabled(i) ==
    \/ shareLoading[i]
    \/ task[i] = Null
    \/ (shareData[i] # Null /\ shareData[i][1].is_existing = Some(TRUE))

\* Line 172: the alert that holds the Retry button is rendered.
RetryOffered(i) == shareError[i] # Null /\ shareError[i][1] # ""

clickShare(i) == ~ShareButtonDisabled(i) /\ handleShare(i)

clickRetry(i) == RetryOffered(i) /\ handleRetry(i)

NextUI ==
    \/ \E i \in Instances : TaskUpdate(i)
    \/ \E i \in Instances : clickShare(i)
    \/ \E i \in Instances : clickRetry(i)
    \/ \E i \in Instances : \E k \in 1..Len(pending[i]) :
          \E res \in Responses : \E t \in ClockReadings(res) :
             PostResolves(i, k, res, t[1], t[2])
    \/ \E i \in Instances : \E k \in 1..Len(pending[i]) :
          \E err \in Failures : PostRejects(i, k, err)

SpecUI == Init /\ [][NextUI]_vars

\* Some outstanding call of i settles and its continuation runs.
Completes(i) ==
    \/ \E k \in 1..Len(pending[i]) : \E res \in Responses :
          \E t \in ClockReadings(res) : PostResolves(i, k, res, t[1], t[2])
    \/ \E k \in 1..Len(pending[i]) : \E err \in Failures : PostRejects(i, k, err)

\* The page, with every issued call settling at some time.
FairSpecUI == SpecUI /\ \A i \in Instances : WF_vars(Completes(i))

(* ------------------------------------------------------------------ *)
(* Specification: one section whose calls reject in every way           *)
(* ------------------------------------------------------------------ *)

\* response.status of a rejected call.
Statuses == {400, 401, 403, 404, 499, 500, 503}

\* response.data.error strings that hold "timeout" in some casing.
TimeoutMessages ==
    {"timeout", "Connection Timeout", "UPSTREAM TIMEOUT", "tImEoUt!",
     "file not found after timeout"}

\* response.data.error strings that hold "not found" in some casing and
\* no "timeout".
NotFoundMessages == {"not found", "File Not Found", "NOT FOUND: f1"}

\* response.data.error strings that hold neither.
OtherMessages ==
    {"internal failure", "Quota exceeded", "time out", "notfound", "not  found", " "}

\* response.data.error: undefined, the empty string, a string, a number.
BodyErrors ==
    { [type |-> "undefined", val |-> ""], [type |-> "string", val |-> ""],
      [type |-> "number", val |-> "42"] }
    \cup { [type |-> "string", val |-> m] :
              m \in TimeoutMessages \cup NotFoundMessages \cup OtherMessages }

\* error.message and error.code axios sets; the classifier reads neither.
AxiosMessages == {"Network Error", "timeout of 1000ms exceeded"}
AxiosCodes == {"ERR_NETWORK", "ECONNABORTED"}

Descriptors ==
    { [response |-> Null, message |-> m, code |-> c] :
         m \in AxiosMessages, c \in AxiosCodes }
    \cup { [response |-> Some([status |-> st, error |-> e]),
            message |-> "Request failed", code |-> "ERR_BAD_RESPONSE"] :
              st \in Statuses, e \in BodyErrors }

InitClassifier ==
    /\ Init
    /\ store = <<>>
    /\ artifact = [i \in Instances |-> "f1"]

NextClassifier ==
    \/ TaskUpdate("A")
    \/ handleShare("A")
    \/ handleRetry("A")
    \/ \E k \in 1..Len(pending["A"]) : \E err \in Descriptors : PostRejects("A", k, err)

SpecClassifier == InitClassifier /\ [][NextClassifier]_vars

(* ================================================================== *)
(* Properties                                                           *)
(* ================================================================== *)

HasRecordFor(list, fileId) ==
    \E k \in 1..Len(list) : list[k].file_id = fileId

UniqueFileIds(list) ==
    \A j, k \in 1..Len(list) : j # k => list[j].file_id # list[k].file_id

\* The last step resolved a call of a new share and wrote the list.
Inserted ==
    /\ last.op = "resolved"
    /\ store # last.before

\* C1: in every reachable state the persisted list holds at most one
\* record per file identity, whatever the handlers and the completions of
\* several instances, with overlapping calls, did before.
C1_AtMostOneRecordPerFile == UniqueFileIds(store)

\* C1 case: a call resolved and wrote the list from a snapshot that was
\* no longer the persisted list, which already held a record of its file.
C1_Witness ==
    /\ Inserted
    /\ last.call[1].shares # last.before
    /\ HasRecordFor(last.before, last.call[1].file_id)

FileIdMessage == "File ID not available. Task may not be completed yet."

\* The step is an invocation of handleShare or handleRetry on instance i.
Invoked(i) == handleShare(i) \/ handleRetry(i)

\* The last step was an invocation the file-identity check refused.
Refused ==
    /\ last.op \in {"request", "retry"}
    /\ last.call = Null

\* C2 (as stated): a result is present exactly in status succeeded and an
\* error message exactly in status failed.
C2_ResultIffSucceededErrorIffFailed ==
    \A i \in Instances :
        /\ shareData[i] # Null <=> status[i] = "succeeded"
        /\ shareError[i] # Null <=> status[i] = "failed"

\* C2 (amended): in status succeeded a result is present, in status failed
\* an error message is present, and in status idle no result is present.
C2_SucceededHasResultFailedHasError ==
    \A i \in Instances :
        /\ status[i] = "succeeded" => shareData[i] # Null
        /\ status[i] = "failed" => shareError[i] # Null
        /\ status[i] = "idle" => shareData[i] = Null

\* C2 case: a refresh failed after an earlier success.
C2_Witness ==
    /\ last.op = "rejected"
    /\ status[last.inst] = "failed"
    /\ shareData[last.inst] # Null
    /\ shareError[last.inst] # Null

\* C3: in every reachable state the number of POST /share calls issued
\* equals the number of invocations that passed the file-identity check;
\* a refused invocation and a completion issue none.
C3_OneCallPerPassedInvocation == nCalls = nPassed

\* C3 case: two calls were issued and the last invocation was refused.
C3_Witness ==
    /\ nCalls = 2
    /\ Refused

\* C4 (as stated): an invocation without file identity issues no call,
\* leaves the list and the result alone, sets the message and ends idle.
C4_RefusalEndsIdle ==
    [][\A i \in Instances :
          (task[i] = Null /\ Invoked(i)) =>
              /\ status'[i] = "idle"
              /\ ~shareLoading'[i]
              /\ nCalls' = nCalls /\ pending' = pending
              /\ store' = store /\ shareData' = shareData
              /\ shareError'[i] = Some(FileIdMessage)]_vars

\* C4 (amended): an invocation without file identity issues no call,
\* leaves the list, the result, the loading flag and the status as they
\* were, and sets the message.
C4_RefusalKeepsStatus ==
    [][\A i \in Instances :
          (task[i] = Null /\ Invoked(i)) =>
              /\ status' = status
              /\ shareLoading' = shareLoading
              /\ nCalls' = nCalls /\ pending' = pending
              /\ store' = store /\ shares' = shares /\ shareData' = shareData
              /\ shareError'[i] = Some(FileIdMessage)]_vars

\* C4 case: an invocation was refused while an earlier result was shown.
C4_Witness ==
    /\ Refused
    /\ shareData[last.inst] # Null
    /\ shareError[last.inst] = Some(FileIdMessage)

\* The step resolves the k-th outstanding call of i with body res.
Resolves(i, k, res) ==
    \E t \in ClockReadings(res) : PostResolves(i, k, res, t[1], t[2])

\* C5 (as stated): when a call for file identity f resolves with
\* is_existing false and the persisted list holds no record of f, the
\* status becomes succeeded with that result and the list is the old list
\* with one record for f and the returned share_url put in front.
C5_NewShareIsPutInFront ==
    [][\A i \in Instances : \A k \in 1..Len(pending[i]) : \A res \in Responses :
          ( /\ Resolves(i, k, res)
            /\ res.is_existing = Some(FALSE)
            /\ ~HasRecordFor(store, pending[i][k].file_id) ) =>
              /\ status'[i] = "succeeded"
              /\ shareData'[i] = Some(res)
              /\ Len(store') = Len(store) + 1
              /\ store'[1].file_id = pending[i][k].file_id
              /\ store'[1].share_url = res.share_url
              /\ Tail(store') = store]_vars

\* C6 (as stated): the persisted list changes only in a step that resolves
\* a call with is_existing not true for a file identity the list has no
\* record of; a success with is_existing true still ends succeeded.
C6_StoreChangesOnlyOnNewShare ==
    [][ /\ store' # store =>
              \E i \in Instances : \E k \in 1..Len(pending[i]) : \E res \in Responses :
                  /\ Resolves(i, k, res)
                  /\ IsNewShare(res)
                  /\ ~HasRecordFor(store, pending[i][k].file_id)
        /\ \A i \in Instances : \A k \in 1..Len(pending[i]) : \A res \in Responses :
              (Resolves(i, k, res) /\ ~IsNewShare(res)) =>
                  status'[i] = "succeeded" /\ store' = store ]_vars

ServerError ==
    [response |-> Some([status |-> 500, error |-> [type |-> "string", val |-> "internal failure"]])]

\* C7: when a call rejects, the status becomes failed, the error message
\* is the classifier's output for the rejection (for HTTP 500 with body
\* error "internal failure": the server-unavailable message) and the
\* persisted list is unchanged; a retry from status failed, the file
\* identity still there, issues exactly one new call.
C7_FailureThenRetry ==
    /\ [](last.op = "rejected" =>
             /\ status[last.inst] = "failed"
             /\ shareError[last.inst] = Some(getUserFriendlyError(last.err[1]))
             /\ last.err[1] = ServerError =>
                   shareError[last.inst] =
                       Some("Server is temporarily unavailable. Please try again later.")
             /\ store = last.before)
    /\ [][\A i \in Instances :
             (status[i] = "failed" /\ task[i] # Null /\ handleRetry(i)) =>
                /\ nCalls' = nCalls + 1
                /\ Len(pending'[i]) = Len(pending[i]) + 1
                /\ \A j \in Instances \ {i} : pending'[j] = pending[j]
                /\ status'[i] = "loading" /\ shareError'[i] = Null
                /\ store' = store]_vars

\* C7 case: after the rejection of the first call a retry issued the second.
C7_Witness ==
    /\ last.op = "retry"
    /\ last.from = "failed"
    /\ last.call # Null
    /\ nCalls = 2
    /\ Len(pending[last.inst]) = 1

\* C8 (as stated): every change of the persisted list puts one record in
\* front of the records it held, which stay as they were.
C8_StoreOnlyGrowsAtFront ==
    [][store' # store => (Len(store') = Len(store) + 1 /\ Tail(store') = store)]_vars

\* The first record saveToLocalStorage was called with for file identity f.
FirstAppended(f) ==
    appended[CHOOSE j \in 1..Len(appended) :
                /\ appended[j].file_id = f
                /\ \A n \in 1..(j - 1) : appended[n].file_id # f]

\* C9 (as stated): once saveToLocalStorage has been called with two
\* records of one file identity, the persisted list holds exactly one
\* record of that identity: the first of them.
C9_SecondAppendKeepsFirst ==
    \A j, k \in 1..Len(appended) :
        (j < k /\ appended[j].file_id = appended[k].file_id) =>
            /\ Cardinality({n \in 1..Len(store) :
                              store[n].file_id = appended[j].file_id}) = 1
            /\ \E n \in 1..Len(store) : store[n] = FirstAppended(appended[j].file_id)

\* C10 (as stated): after calls of saveToLocalStorage with records of
\* pairwise distinct file identities the persisted list starts with those
\* records, newest first, each as it was built.
C10_ReadsBackNewestFirst ==
    UniqueFileIds(appended) =>
        /\ Len(store) >= Len(appended)
        /\ \A n \in 1..Len(appended) : store[n] = appended[Len(appended) - n + 1]

(* ------------------------------------------------------------------ *)
(* The classifier                                                       *)
(* ------------------------------------------------------------------ *)

\* The last step was a rejection; its descriptor and the message shown.
Rejected == last.op = "rejected"
RejectedWith == last.err[1]
Shown == shareError[last.inst]

HasResponse(d) == d.response # Null
StatusOf(d) == d.response[1].status
ServerMessageOf(d) == d.response[1].error

\* C11: a rejection without response is shown as the unable-to-connect
\* message, whatever the descriptor's other fields are.
C11_NoResponseIsNetworkError ==
    (Rejected /\ ~HasResponse(RejectedWith)) =>
        Shown = Some("Unable to connect. Please check your internet connection.")

\* C11 case: a rejection without response whose axios message speaks of
\* a timeout was classified.
C11_Witness ==
    /\ Rejected
    /\ ~HasResponse(RejectedWith)
    /\ RejectedWith.message = "timeout of 1000ms exceeded"
    /\ Shown = Some("Unable to connect. Please check your internet connection.")

\* C12: a rejection with status 401 or 403 is shown as the permission
\* message, also when the body carries a message.
C12_ForbiddenIsPermissionError ==
    (Rejected /\ HasResponse(RejectedWith) /\ StatusOf(RejectedWith) \in {401, 403}) =>
        Shown = Some("You don't have permission to share this file.")

\* C12 case: a 401 whose body message holds "not found" was classified.
C12_Witness ==
    /\ Rejected
    /\ HasResponse(RejectedWith)
    /\ StatusOf(RejectedWith) = 401
    /\ ServerMessageOf(RejectedWith) = [type |-> "string", val |-> "File Not Found"]
    /\ Shown = Some("You don't have permission to share this file.")

\* The rejection carries a body message that holds "timeout" in some casing.
HasTimeoutMessage(d) ==
    /\ HasResponse(d)
    /\ ServerMessageOf(d).type = "string"
    /\ ServerMessageOf(d).val \in TimeoutMessages

\* C13 (as stated): a rejection whose body message holds "timeout" in any
\* casing is shown as the timed-out message.
C13_TimeoutMessageIsTimeout ==
    (Rejected /\ HasTimeoutMessage(RejectedWith)) =>
        Shown = Some("Request timed out. Please try again.")

\* C13 (amended): a rejection whose status is neither 401 nor 403 and is
\* below 500, and whose body message holds "timeout" in any casing, is
\* shown as the timed-out message.
C13_TimeoutMessageBelow500IsTimeout ==
    ( /\ Rejected
      /\ HasTimeoutMessage(RejectedWith)
      /\ StatusOf(RejectedWith) \notin {401, 403}
      /\ StatusOf(RejectedWith) < 500 ) =>
        Shown = Some("Request timed out. Please try again.")

\* C13 case: a 400 with an upper-case TIMEOUT in its body was classified.
C13_Witness ==
    /\ Rejected
    /\ HasResponse(RejectedWith)
    /\ StatusOf(RejectedWith) = 400
    /\ ServerMessageOf(RejectedWith) = [type |-> "string", val |-> "UPSTREAM TIMEOUT"]
    /\ Shown = Some("Request timed out. Please try again.")

\* The rules of the classification, each with the negation of the rules
\* before it, and the message of each.
RuleHolds(n, d) ==
    LET resp == HasResponse(d)
        perm == resp /\ StatusOf(d) \in {401, 403}
        srv  == resp /\ ~perm /\ StatusOf(d) >= 500
        msg  == resp /\ ~perm /\ ~srv /\ ServerMessageOf(d).type = "string"
                     /\ ServerMessageOf(d).val # ""
        tmo  == msg /\ ServerMessageOf(d).val \in TimeoutMessages
        nf   == msg /\ ServerMessageOf(d).val \in NotFoundMessages
    IN  CASE n = 1 -> ~resp
          [] n = 2 -> perm
          [] n = 3 -> srv
          [] n = 4 -> tmo
          [] n = 5 -> nf
          [] n = 6 -> msg /\ ~tmo /\ ~nf
          [] n = 7 -> resp /\ ~perm /\ ~srv /\ ~msg

RuleMessage(n, d) ==
    CASE n = 1 -> "Unable to connect. Please check your internet connection."
      [] n = 2 -> "You don't have permission to share this file."
      [] n = 3 -> "Server is temporarily unavailable. Please try again later."
      [] n = 4 -> "Request timed out. Please try again."
      [] n = 5 -> "File not found. It may have been deleted."
      [] n = 6 -> ServerMessageOf(d).val
      [] n = 7 -> "Failed to create share link. Please try again."

\* C14: for every rejection exactly one rule of the list holds and the
\* message shown is that rule's: a string, the same for the same descriptor.
C14_ClassifierFollowsRuleList ==
    Rejected =>
        /\ Cardinality({n \in 1..7 : RuleHolds(n, RejectedWith)}) = 1
        /\ \A n \in 1..7 :
              RuleHolds(n, RejectedWith) => Shown = Some(RuleMessage(n, RejectedWith))
        /\ Shown # Null /\ Len(Shown[1]) > 0

\* C14 case: a 404 whose body message holds both "not found" and
\* "timeout" was classified by the timeout rule.
C14_Witness ==
    /\ Rejected
    /\ HasResponse(RejectedWith)
    /\ StatusOf(RejectedWith) = 404
    /\ ServerMessageOf(RejectedWith) =
          [type |-> "string", val |-> "file not found after timeout"]
    /\ Shown = Some("Request timed out. Please try again.")


(* ------------------------------------------------------------------ *)
(* The status of one section                                            *)
(* ------------------------------------------------------------------ *)

Outstanding(i) == Len(pending[i])

\* C15 (as stated): a section with a call outstanding is loading, also
\* when the handler is invoked again while a call is outstanding.
C15_OutstandingIsLoading ==
    \A i \in Instances : Outstanding(i) > 0 => status[i] = "loading"

\* C15 (amended): a loading section has a call outstanding; issuing a call
\* enters loading; loading is left only by the completion of one call;
\* and as long as a section has no two calls outstanding at once, it is
\* loading whenever a call is outstanding.
C15_LoadingWhileOnlyCallOutstanding ==
    /\ [](\A i \in Instances : status[i] = "loading" => Outstanding(i) > 0)
    /\ [][\A i \in Instances :
            /\ Len(pending'[i]) > Len(pending[i]) => status'[i] = "loading"
            /\ (status[i] = "loading" /\ status'[i] # "loading") =>
                  Len(pending'[i]) = Len(pending[i]) - 1
            /\ ( /\ Len(pending[i]) <= 1
                 /\ Len(pending'[i]) <= 1
                 /\ (Len(pending[i]) = 1 => status[i] = "loading") ) =>
                  (Len(pending'[i]) = 1 => status'[i] = "loading")]_vars

\* C15 case: the second call of a section, issued after the first had
\* completed, has completed and the section has left loading.
C15_Witness ==
    /\ last.op = "resolved"
    /\ last.from = "loading"
    /\ nCalls = 2
    /\ Outstanding(last.inst) = 0
    /\ \A i \in Instances : Outstanding(i) = 0
    /\ status[last.inst] = "succeeded"
    /\ shareLoading = [i \in Instances |-> FALSE]
    /\ status[IF last.inst = "A" THEN "B" ELSE "A"] = "idle"


\* The edges of the status of one section.
StatusEdges ==
    { <<"idle", "loading">>, <<"loading", "succeeded">>, <<"loading", "failed">>,
      <<"failed", "loading">>, <<"succeeded", "loading">> }

\* C16: the status of a section changes along the five edges only, so
\* succeeded and failed are entered from loading only; a loading section
\* has the loading flag set and shows no error message.
C16_StatusFollowsEdges ==
    /\ [](\A i \in Instances :
            /\ status[i] = "loading" <=> shareLoading[i]
            /\ status[i] = "loading" => shareError[i] = Null)
    /\ [][\A i \in Instances :
            status'[i] # status[i] => <<status[i], status'[i]>> \in StatusEdges]_vars

\* C16 case: the share button was clicked in a failed section that showed
\* an error message; the section is loading with the message gone.
C16_Witness ==
    /\ last.op = "request"
    /\ last.from = "failed"
    /\ last.call # Null
    /\ status[last.inst] = "loading"
    /\ shareLoading[last.inst]
    /\ shareError[last.inst] = Null


\* C17: with every issued call settling, a loading section comes to
\* succeeded or failed; a rejected call leaves its section failed; and a
\* failed section whose task has a file identity offers the retry, after
\* any number of attempts.
C17_LoadingEndsAndFailedOffersRetry ==
    /\ \A i \in Instances :
          (status[i] = "loading") ~> (status[i] \in {"succeeded", "failed"})
    /\ [](last.op = "rejected" => status[last.inst] = "failed")
    /\ [](\A i \in Instances :
            (status[i] = "failed" /\ task[i] # Null) =>
               /\ RetryOffered(i)
               /\ nCalls < MaxCalls => ENABLED clickRetry(i))

\* C17 case: a retried call was rejected again and the retry is offered
\* once more.
C17_Witness ==
    /\ last.op = "rejected"
    /\ last.from = "loading"
    /\ nCalls >= 2
    /\ last.call[1].file_id = artifact[last.inst]
    /\ task[last.inst] # Null
    /\ status[last.inst] = "failed"
    /\ RetryOffered(last.inst)
    /\ shareData[last.inst] = Null


\* C18: in a section that shows an error message, a retry step is the
\* step handleShare makes from the same state, and a handleShare step is
\* the step of a retry: same call issued, same status, result, error
\* message and list afterwards; nothing counts the attempts.
C18_RetryIsRequest ==
    [][\A i \in Instances :
         (last'.inst = i /\ last'.op \in {"request", "retry"} /\ shareError[i] # Null) =>
            /\ handleRetry(i) => StartShare(i, shareError, "retry")
            /\ handleShare(i) =>
                  StartShare(i, [shareError EXCEPT ![i] = Null], "request")]_vars

\* C18 case: a retry in a failed section, which showed the message of
\* the failure, has issued a call for the same file.
C18_Witness ==
    /\ last.op = "retry"
    /\ last.from = "failed"
    /\ last.call # Null
    /\ last.call[1].shares = shares[last.inst]
    /\ last.call[1].file_id = artifact[last.inst]
    /\ shareError[last.inst] = Null
    /\ shareLoading[last.inst]


(* ------------------------------------------------------------------ *)
(* The result shown and the record kept                                 *)
(* ------------------------------------------------------------------ *)

\* The list holds a record of the file with the link and code of res.
HasRecordOf(list, fileId, res) ==
    \E k \in 1..Len(list) :
       /\ list[k].file_id = fileId
       /\ list[k].share_url = res.share_url
       /\ list[k].pass_code = res.pass_code

\* C19 (as stated): while a section is succeeded with a result whose
\* is_existing is false, the list holds a record of the section's file
\* with the link and code of the result.
C19_SucceededResultIsStored ==
    \A i \in Instances :
       ( /\ status[i] = "succeeded"
         /\ shareData[i] # Null
         /\ shareData[i][1].is_existing = Some(FALSE) ) =>
          HasRecordOf(store, artifact[i], shareData[i][1])

\* C19 (amended): when a call resolves with a result whose is_existing is
\* false or absent, then, if the list the section held when it issued the
\* call has no record of the file, the list is written with a record of
\* the result's link and code in front; and if it has one, the list is
\* left as it is and that record keeps its link.
C19_ResultIsStoredUnlessFileHasRecord ==
    (last.op = "resolved" /\ IsNewShare(last.res[1])) =>
       IF AlreadyExists(last.call[1].shares, last.call[1].file_id)
       THEN store = last.before
       ELSE /\ store # <<>>
            /\ Head(store).file_id = last.call[1].file_id
            /\ Head(store).share_url = last.res[1].share_url
            /\ Head(store).pass_code = last.res[1].pass_code
            /\ Tail(store) = last.call[1].shares
            /\ shares[last.inst] = store

\* C19 case: a refresh returned a link other than the one in the file's
\* record, and the record kept its link.
C19_Witness ==
    /\ last.op = "resolved"
    /\ last.from = "loading"
    /\ last.res[1].is_existing = Some(FALSE)
    /\ status[last.inst] = "succeeded"
    /\ shareData[last.inst] = last.res
    /\ store = last.before
    /\ HasRecordFor(store, last.call[1].file_id)
    /\ ~HasRecordOf(store, last.call[1].file_id, last.res[1])

====
